---- MODULE Spec2Model ----
(***************************************************************************)
(* Model of the Nostr -> Bluesky cross-poster (src/bot.py).                *)
(*                                                                         *)
(* Texts are sequences of characters.  An ASCII character is the string    *)
(* of that one character; a character beyond ASCII is the string that      *)
(* names its code point, "U+" and four upper-case hexadecimal digits       *)
(* ("U+00E9" for e-acute, "U+3000" for the ideographic space), so that the *)
(* module is ASCII only and reads the same in every locale.                *)
(*                                                                         *)
(* The regular expressions and string methods of the source are written    *)
(* out as operators that compute what re.findall, re.sub, str.replace and  *)
(* str.strip compute.                                                      *)
(* The handler handle_nostr_event is cut at its suspension points (the     *)
(* awaits on the relay query and on the HTTP GET); everything between two  *)
(* suspension points is one action.                                        *)
(***************************************************************************)
EXTENDS Integers, Sequences, FiniteSets, TLC

(***************************************************************************)
(* Characters and generic sequence helpers                                 *)
(***************************************************************************)

\* \s of the re module on str patterns and the characters removed by
\* str.strip(): the 29 characters for which str.isspace() is true.  First
\* line: space, \t, \n, \r, \f; second line: the ASCII control characters
\* \v (U+000B), U+001C, U+001D, U+001E, U+001F, written as themselves; then
\* the white space beyond ASCII, by the names of the code points.
WhiteSpace ==
    {" ", "\t", "\n", "\r", "\f",
     "", "", "", "", "",
     "U+0085", "U+00A0", "U+1680",
     "U+2000", "U+2001", "U+2002", "U+2003", "U+2004", "U+2005", "U+2006",
     "U+2007", "U+2008", "U+2009", "U+200A",
     "U+2028", "U+2029", "U+202F", "U+205F", "U+3000"}

\* the character class [.,;:!?)\]] used at bot.py:146 and bot.py:157
TrailingPunct == {".", ",", ";", ":", "!", "?", ")", "]"}

\* the character class of bot.py:172
Bech32Chars == {"q","p","z","r","y","9","x","8","g","f","2","t","v","d","w","0",
                "s","3","j","n","5","4","k","h","c","e","6","m","u","a","7","l"}

MinOf(S) == CHOOSE x \in S : \A y \in S : x <= y

MaxOf(S) == CHOOSE x \in S : \A y \in S : y <= x

\* p occurs in s at position i
StartsWith(s, i, p) ==
    /\ i >= 1
    /\ i + Len(p) - 1 <= Len(s)
    /\ \A k \in 1..Len(p) : s[i + k - 1] = p[k]

\* last index of the maximal run of characters of cls that starts at i
\* (i - 1 when s[i] is not in cls or i is past the end)
RunEnd(s, i, cls) ==
    LET stop == {k \in i..Len(s) : s[k] \notin cls}
    IN  IF stop = {} THEN Len(s) ELSE MinOf(stop) - 1

\* last index of the maximal run of characters outside cls that starts at i
RunEndNot(s, i, cls) ==
    LET stop == {k \in i..Len(s) : s[k] \in cls}
    IN  IF stop = {} THEN Len(s) ELSE MinOf(stop) - 1

\* number of (possibly overlapping) occurrences of p in s
Occurrences(s, p) == Cardinality({i \in 1..Len(s) : StartsWith(s, i, p)})

\* str.replace(old, new): left to right, non-overlapping
RECURSIVE str_replace_from(_, _, _, _)
str_replace_from(s, i, old, new) ==
    IF i > Len(s) THEN << >>
    ELSE IF StartsWith(s, i, old)
         THEN new \o str_replace_from(s, i + Len(old), old, new)
         ELSE <<s[i]>> \o str_replace_from(s, i + 1, old, new)

str_replace(s, old, new) == str_replace_from(s, 1, old, new)

\* str.strip()
str_strip(s) ==
    LET keep == {k \in 1..Len(s) : s[k] \notin WhiteSpace}
    IN  IF keep = {} THEN << >> ELSE SubSeq(s, MinOf(keep), MaxOf(keep))

(***************************************************************************)
(* extract_npub_mentions  (bot.py:169-174)                                 *)
(***************************************************************************)

NostrPrefix == <<"n","o","s","t","r",":">>

Npub1 == <<"n","p","u","b","1">>

\* re.findall(r'nostr:(npub1[qpzry9x8gf2tvdw0s3jn54khce6mua7l]+)', content):
\* the captured group of every non-overlapping match, left to right
RECURSIVE npub_findall(_, _)
npub_findall(s, i) ==
    IF i > Len(s) THEN << >>
    ELSE IF /\ StartsWith(s, i, NostrPrefix \o Npub1)
            /\ i + 11 <= Len(s)
            /\ s[i + 11] \in Bech32Chars
         THEN LET e == RunEnd(s, i + 11, Bech32Chars)
              IN  <<SubSeq(s, i + 6, e)>> \o npub_findall(s, e + 1)
         ELSE npub_findall(s, i + 1)

extract_npub_mentions(content) == npub_findall(content, 1)

(***************************************************************************)
(* extract_image_urls  (bot.py:135-149)                                    *)
(***************************************************************************)

\* the alternation of bot.py:138, in the order it is written
ImageExtensions ==
    << <<"j","p","g">>, <<"j","p","e","g">>, <<"p","n","g">>, <<"g","i","f">>,
       <<"w","e","b","p">>,
       <<"J","P","G">>, <<"J","P","E","G">>, <<"P","N","G">>, <<"G","I","F">>,
       <<"W","E","B","P">> >>

\* the alternative the regex engine takes at a dot at position d (0: none)
ext_at(s, d) ==
    LET ok == {x \in 1..Len(ImageExtensions) : StartsWith(s, d + 1, ImageExtensions[x])}
    IN  IF ok = {} THEN 0 ELSE MinOf(ok)

\* end index of the match of  https?://[^\s]+\.(?:jpg|...)  that starts at
\* i, or 0 when there is none.  [^\s]+ is greedy: the engine takes the
\* whole run of non-space characters and backs off to the last dot that is
\* followed by an extension.
image_match_end(s, i) ==
    LET p == IF StartsWith(s, i, <<"h","t","t","p","s",":","/","/">>) THEN i + 8
             ELSE IF StartsWith(s, i, <<"h","t","t","p",":","/","/">>) THEN i + 7
             ELSE 0
        e == RunEndNot(s, p, WhiteSpace)
        dots == {d \in (p + 1)..e : s[d] = "." /\ ext_at(s, d) # 0}
    IN  IF p = 0 \/ dots = {} THEN 0
        ELSE LET d == MaxOf(dots)
             IN  d + Len(ImageExtensions[ext_at(s, d)])

RECURSIVE image_findall(_, _)
image_findall(s, i) ==
    IF i > Len(s) THEN << >>
    ELSE LET e == image_match_end(s, i)
         IN  IF e # 0 THEN <<SubSeq(s, i, e)>> \o image_findall(s, e + 1)
             ELSE image_findall(s, i + 1)

\* re.sub(r'[.,;:!?)\]]+$', '', url)
strip_trailing_punct(url) ==
    LET keep == {k \in 1..Len(url) : url[k] \notin TrailingPunct}
    IN  IF keep = {} THEN << >> ELSE SubSeq(url, 1, MaxOf(keep))

extract_image_urls(content) ==
    LET urls == image_findall(content, 1)
    IN  [k \in 1..Len(urls) |-> strip_trailing_punct(urls[k])]

(***************************************************************************)
(* remove_image_urls  (bot.py:151-167)                                     *)
(***************************************************************************)

\* re.sub(re.escape(url) + r'[.,;:!?)\]]*', '', s)
RECURSIVE sub_url_from(_, _, _)
sub_url_from(s, i, url) ==
    IF i > Len(s) THEN << >>
    ELSE IF StartsWith(s, i, url)
         THEN sub_url_from(s, RunEnd(s, i + Len(url), TrailingPunct) + 1, url)
         ELSE <<s[i]>> \o sub_url_from(s, i + 1, url)

sub_url(s, url) == sub_url_from(s, 1, url)

RECURSIVE sub_urls(_, _, _)
sub_urls(s, urls, k) ==
    IF k > Len(urls) THEN s ELSE sub_urls(sub_url(s, urls[k]), urls, k + 1)

\* re.sub(r' +', ' ', s): a space that follows a space is dropped
RECURSIVE collapse_spaces_from(_, _)
collapse_spaces_from(s, i) ==
    IF i > Len(s) THEN << >>
    ELSE IF s[i] = " " /\ i > 1 /\ s[i - 1] = " "
         THEN collapse_spaces_from(s, i + 1)
         ELSE <<s[i]>> \o collapse_spaces_from(s, i + 1)

collapse_spaces(s) == collapse_spaces_from(s, 1)

\* re.sub(r'\n{3,}', '\n\n', s): the third and later newlines of a run are
\* dropped
RECURSIVE collapse_newlines_from(_, _)
collapse_newlines_from(s, i) ==
    IF i > Len(s) THEN << >>
    ELSE IF s[i] = "\n" /\ i > 2 /\ s[i - 1] = "\n" /\ s[i - 2] = "\n"
         THEN collapse_newlines_from(s, i + 1)
         ELSE <<s[i]>> \o collapse_newlines_from(s, i + 1)

collapse_newlines(s) == collapse_newlines_from(s, 1)

remove_image_urls(content, image_urls) ==
    str_strip(collapse_newlines(collapse_spaces(sub_urls(content, image_urls, 1))))

(***************************************************************************)
(* Inputs: texts, events and the replies of the collaborators              *)
(***************************************************************************)

\* number of deliveries of a run
MaxDeliveries == 2

\* number of handler invocations that can exist at once
NumSlots == 2

Slots == 1..NumSlots

\* image_urls[:4]  (bot.py:315)
MaxImages == 4

\* max_size_mb  (bot.py:257)
MaxSizeMB == 10

\* 1024 * 1024  (bot.py:275)
BytesPerMB == 1024 * 1024

Http == <<"h","t","t","p",":","/","/">>

Png == <<".","p","n","g">>

Sp == <<" ">>

UrlA == Http \o <<"a">> \o Png

UrlB == Http \o <<"b">> \o Png

UrlC == Http \o <<"c">> \o Png

UrlD == Http \o <<"d">> \o Png

UrlE == Http \o <<"e">> \o Png

UrlF == Http \o <<"f">> \o Png

\* "hi"
TextPlain == <<"h","i">>

\* " \r\n" and the ideographic space
TextBlank == <<" ","\r","\n","U+3000">>

\* "hi nostr:npub1xxxx"
TextMention == <<"h","i"," ">> \o NostrPrefix \o Npub1 \o <<"x","x","x","x">>

\* "nostr:npub1xx nostr:npub1xxq nostr:npub1xx"
TextMentions ==
    NostrPrefix \o Npub1 \o <<"x","x">> \o Sp \o
    NostrPrefix \o Npub1 \o <<"x","x","q">> \o Sp \o
    NostrPrefix \o Npub1 \o <<"x","x">>

\* "nostr:nostr:npub1xx"
TextNested == NostrPrefix \o NostrPrefix \o Npub1 \o <<"x","x">>

\* "look at https://ex.com/a.png!"
TextImage ==
    <<"l","o","o","k"," ","a","t"," ">> \o
    <<"h","t","t","p","s",":","/","/","e","x",".","c","o","m","/","a">> \o Png \o <<"!">>

\* six image URLs, one per word
TextSix ==
    UrlA \o Sp \o UrlB \o Sp \o UrlC \o Sp \o UrlD \o Sp \o UrlE \o Sp \o UrlF

\* "http://a.png  x http://a.png/b.png"
TextShared == UrlA \o <<" "," ","x"," ">> \o UrlA \o <<"/","b">> \o Png

\* "pic http://a.png by nostr:npub1xxxx"
TextBoth == <<"p","i","c"," ">> \o UrlA \o <<" ","b","y"," ">> \o
            NostrPrefix \o Npub1 \o <<"x","x","x","x">>

\* A time is what Timestamp.as_secs() returns, a number of seconds below
\* 2^64.  It is written as three numbers below 10^9: <<a, b, c>> is
\* a * 10^18 + b * 10^9 + c seconds, so that times beyond 2^31 can be told
\* apart.
Secs(n) == <<0, 0, n>>

\* x < y on times
ts_less(x, y) ==
    \/ x[1] < y[1]
    \/ x[1] = y[1] /\ x[2] < y[2]
    \/ x[1] = y[1] /\ x[2] = y[2] /\ x[3] < y[3]

\* 253402300799: 9999-12-31 23:59:59 UTC, the last second a datetime holds
LastDatetime == <<0, 253, 402300799>>

\* 253402300800, the first second of the year 10000
Year10000 == <<0, 253, 402300800>>

\* the value of Timestamp.now() at construction  (bot.py:94)
StartTimes == {Secs(2)}

\* an event as the relay delivers it: id().to_hex(), created_at().as_secs()
\* (a time, three numbers), tags().event_ids() and content()
Ev(id, created_at, event_ids, content) ==
    [id |-> id, created_at |-> created_at, event_ids |-> event_ids, content |-> content]

Events ==
    { Ev(1,  Secs(2), << >>,  TextPlain),
      Ev(2,  Secs(1), << >>,  TextImage),
      Ev(3,  Secs(3), <<7>>,  TextBoth),
      Ev(4,  Secs(2), << >>,  TextBlank),
      Ev(5,  Secs(3), << >>,  TextMention),
      Ev(6,  Secs(2), << >>,  TextMentions),
      Ev(7,  Secs(3), << >>,  TextNested),
      Ev(8,  Secs(2), << >>,  TextImage),
      Ev(9,  Secs(3), << >>,  TextSix),
      Ev(10, Secs(2), << >>,  TextShared),
      Ev(11, LastDatetime, << >>,  TextBoth),
      Ev(12, Year10000, << >>,  TextBoth) }

EventIds == {e.id : e \in Events}

\* JSON values of the metadata fields
Absent == [t |-> "absent"]

JStr(v) == [t |-> "str", v |-> v]

JNum(n) == [t |-> "num", v |-> n]

Fountain == <<"F","o","u","n","t","a","i","n">>

Bob == <<"B","o","b">>

\* what get_events_of (bot.py:190) gives back: an exception (timeout, bad
\* key, connection), no event, or an event whose content is a JSON text
MetaReplies ==
    { [kind |-> "raise"],
      [kind |-> "empty"],
      [kind |-> "event", json |-> [t |-> "invalid"]],
      [kind |-> "event", json |-> [t |-> "array"]],
      [kind |-> "event", json |-> [t |-> "object", display_name |-> JStr(Fountain), name |-> JStr(Bob)]],
      [kind |-> "event", json |-> [t |-> "object", display_name |-> Absent, name |-> JStr(Bob)]],
      [kind |-> "event", json |-> [t |-> "object", display_name |-> JStr(<< >>), name |-> JStr(<< >>)]],
      [kind |-> "event", json |-> [t |-> "object", display_name |-> Absent, name |-> Absent]],
      [kind |-> "event", json |-> [t |-> "object", display_name |-> JNum(5), name |-> Absent]] }

ImagePng == <<"i","m","a","g","e","/","p","n","g">>

TextHtml == <<"t","e","x","t","/","h","t","m","l">>

HttpResp(status, ctype, size, decodable) ==
    [kind |-> "response", status |-> status, content_type |-> ctype,
     size |-> size, decodable |-> decodable]

\* what client.get (bot.py:264) gives back: an exception, or a response with
\* a status, a content-type header, a body of size bytes that PIL can or
\* cannot verify
HttpReplies ==
    { [kind |-> "raise"],
      HttpResp(200, ImagePng, 1000, TRUE),
      HttpResp(200, ImagePng, MaxSizeMB * BytesPerMB, TRUE),
      HttpResp(200, ImagePng, MaxSizeMB * BytesPerMB + 1, TRUE),
      HttpResp(200, TextHtml, 1000, TRUE),
      HttpResp(200, TextHtml, MaxSizeMB * BytesPerMB + 1, TRUE),
      HttpResp(404, ImagePng, 1000, TRUE),
      HttpResp(200, ImagePng, 1000, FALSE) }

\* upload_blob (bot.py:299) and send_post (bot.py:338, 344) return or raise
CallOutcomes == {"ok", "raise"}

None == [t |-> "None"]

(***************************************************************************)
(* The collaborator-facing functions                                       *)
(***************************************************************************)

\* truth value of a JSON value in Python (None, '' and 0 are false)
Truthy(v) ==
    CASE v.t = "absent" -> FALSE
      [] v.t = "str"    -> Len(v.v) > 0
      [] v.t = "num"    -> v.v # 0

\* metadata.get('display_name') or metadata.get('name') or None  (bot.py:207)
first_name(json) ==
    IF Truthy(json.display_name) THEN json.display_name
    ELSE IF Truthy(json.name) THEN json.name
    ELSE Absent

\* fetch_profile_metadata  (bot.py:176-221): None, or the dict of bot.py:211.
\* Every exception inside (the query raising, invalid JSON, a JSON value
\* without .get) is caught and gives None.
fetch_profile_metadata(reply) ==
    CASE reply.kind = "raise" -> None
      [] reply.kind = "empty" -> None
      [] reply.kind = "event" ->
            IF reply.json.t # "object" THEN None
            ELSE IF Truthy(first_name(reply.json))
                 THEN [t |-> "dict", display_name |-> first_name(reply.json)]
                 ELSE None

\* the size gate with >= for >: a body of exactly the limit is rejected
download_image_SizeInclusive(reply) ==
    IF reply.kind = "raise" THEN FALSE
    ELSE IF ~(reply.status >= 200 /\ reply.status < 300) THEN FALSE
    ELSE IF ~StartsWith(reply.content_type, 1, <<"i","m","a","g","e","/">>) THEN FALSE
    ELSE IF reply.size >= MaxSizeMB * BytesPerMB THEN FALSE
    ELSE IF ~reply.decodable THEN FALSE
    ELSE TRUE

\* download_image  (bot.py:257-293): the gates in the order of the code;
\* TRUE when (content, content_type) is returned, FALSE when None is
download_image(reply) ==
    IF reply.kind = "raise" THEN FALSE
    ELSE IF ~(reply.status >= 200 /\ reply.status < 300) THEN FALSE
    ELSE IF ~StartsWith(reply.content_type, 1, <<"i","m","a","g","e","/">>) THEN FALSE
    ELSE IF reply.size > MaxSizeMB * BytesPerMB THEN FALSE
    ELSE IF ~reply.decodable THEN FALSE
    ELSE TRUE

\* upload_image_to_bluesky  (bot.py:295-303): TRUE when a blob is returned
upload_image_to_bluesky(outcome) == outcome = "ok"

(***************************************************************************)
(* The gates of handle_nostr_event  (bot.py:353-378)                       *)
(***************************************************************************)

\* the duplicate check left out
already_processed_Never(event_id, processed) == FALSE

\* event_id in self.processed_events  (bot.py:358)
already_processed(event_id, processed) == event_id \in processed

\* the age gate with <= for <
too_old_Inclusive(event, start) == ~ts_less(start, event.created_at)

\* event.created_at().as_secs() < self.start_time.as_secs()  (bot.py:362)
too_old(event, start) == ts_less(event.created_at, start)

\* datetime.fromtimestamp(event.created_at().as_secs(), tz=timezone.utc)
\* (bot.py:382) raises ValueError or OverflowError for a time after the
\* last second of the year 9999
fromtimestamp_raises(event) == ts_less(LastDatetime, event.created_at)

\* the marking left out
mark_processed_Skip(processed, event_id) == processed

\* self.processed_events.add(event_id)  (bot.py:366)
mark_processed(processed, event_id) == processed \cup {event_id}

\* the reply check always answering False
is_reply_Never(event) == FALSE

\* is_reply  (bot.py:96-105)
is_reply(event) == Len(event.event_ids) > 0

\* the empty-content gate left out
is_empty_Never(content) == FALSE

\* not content.strip()  (bot.py:376)
is_empty(content) == str_strip(content) = << >>

\* the loop over image_urls without the slice
candidates_All(image_urls) == image_urls

\* image_urls[:4]  (bot.py:315)
candidates(image_urls) ==
    SubSeq(image_urls, 1, IF Len(image_urls) < MaxImages THEN Len(image_urls) ELSE MaxImages)

\* the elements of a sequence, as set(npubs) builds them  (bot.py:240)
unique(seq) == {seq[k] : k \in 1..Len(seq)}

(***************************************************************************)
(* State                                                                   *)
(***************************************************************************)

VARIABLES
    start_time,        \* self.start_time
    processed_events,  \* self.processed_events
    delivered,         \* number of events the relay has delivered
    h,                 \* the invocations of handle_nostr_event, by slot
    attempts,          \* send_post calls made, by event id
    published,         \* send_post calls that returned, by event id
    last_reply,        \* the reply to the last HTTP GET, where it is observed
    call               \* an application of one of the text functions

vars == <<start_time, processed_events, delivered, h, attempts, published,
          last_reply, call>>

NoReply == [kind |-> "none"]

NoCall == [fn |-> "none"]

NoEvent == [id |-> 0]

NoPost == [t |-> "none"]

\* the local state of one invocation of handle_nostr_event
\*   pc        "idle", at the await "lookup" (bot.py:241), at the await
\*             "download" (bot.py:316), or "done"
\*   result    how the invocation ended
\*   seq       the number of the delivery
\*   left      the tokens of set(npubs) not yet iterated, npub the current
\*   lookups   one record per completed iteration of the loop of bot.py:240
\*   idx       the position of the current candidate in image_urls[:4]
\*   fetched   the URLs download_image was called with
\*   uploaded  the positions upload_image_to_bluesky was called for
\*   images    the positions whose blob is in images
\*   post      the send_post call
IdleTask ==
    [pc |-> "idle", result |-> "none", event |-> NoEvent, seq |-> 0,
     left |-> {}, npub |-> << >>, lookups |-> << >>,
     modified_content |-> << >>,
     image_urls |-> << >>, idx |-> 0, fetched |-> << >>, uploaded |-> << >>,
     images |-> << >>, successfully_processed_urls |-> << >>,
     post |-> NoPost]

Finish(t, result) == [t EXCEPT !.pc = "done", !.result = result]

(***************************************************************************)
(* post_to_bluesky  (bot.py:305-351)                                       *)
(***************************************************************************)

\* the text cleaned whether or not an image was attached
compose_AlwaysStrip(t) ==
    LET post_content ==
            remove_image_urls(t.modified_content, t.successfully_processed_urls)
    IN  [t EXCEPT !.pc = "send",
                  !.post = [t |-> "post", text |-> post_content, images |-> t.images,
                            embed |-> (t.images # << >>), ok |-> FALSE]]

\* bot.py:328-344: strip the attached URLs and call send_post, once, with
\* the embed when there are images and with the text alone when not
compose(t) ==
    LET post_content ==
            IF t.successfully_processed_urls # << >>
            THEN remove_image_urls(t.modified_content, t.successfully_processed_urls)
            ELSE t.modified_content
    IN  [t EXCEPT !.pc = "send",
                  !.post = [t |-> "post", text |-> post_content, images |-> t.images,
                            embed |-> (t.images # << >>), ok |-> FALSE]]

\* bot.py:345-351 and 397-400: send_post returned (True) or raised (False);
\* either way the handler logs and returns
send_post_returns(t, sendOutcome) ==
    IF t.pc # "send" THEN t
    ELSE [Finish(t, IF sendOutcome = "ok" THEN "posted" ELSE "failed")
             EXCEPT !.post.ok = (sendOutcome = "ok")]

\* the outcomes send_post can have when the invocation reached it
SendOutcomes(t) == IF t.pc = "send" THEN CallOutcomes ELSE {"ok"}

\* bot.py:389-395 and 309-316: extract the URLs and start on the first
\* candidate, or publish at once when there is none
start_post(t) ==
    LET urls == extract_image_urls(t.modified_content)
        t1   == [t EXCEPT !.image_urls = urls]
    IN  IF Len(candidates(urls)) > 0
        THEN [t1 EXCEPT !.pc = "download", !.idx = 1,
                        !.fetched = <<candidates(urls)[1]>>]
        ELSE compose(t1)

\* bot.py:316-326 for the candidate at t.idx, then the next candidate or
\* the publish
after_download(t, reply, uploadOutcome) ==
    LET got  == download_image(reply)
        blob == got /\ upload_image_to_bluesky(uploadOutcome)
        t1   == [t EXCEPT
                   !.uploaded = IF got THEN Append(@, t.idx) ELSE @,
                   !.images = IF blob THEN Append(@, t.idx) ELSE @,
                   !.successfully_processed_urls =
                        IF blob THEN Append(@, candidates(t.image_urls)[t.idx]) ELSE @]
    IN  IF t.idx < Len(candidates(t.image_urls))
        THEN [t1 EXCEPT !.idx = t.idx + 1,
                        !.fetched = Append(@, candidates(t.image_urls)[t.idx + 1])]
        ELSE compose(t1)

(***************************************************************************)
(* replace_npub_mentions  (bot.py:223-255)                                 *)
(***************************************************************************)

\* the text that replaces nostr:<npub>  (bot.py:243-252); a display name
\* that is not a string makes str.replace raise TypeError
replacement(npub, metadata) ==
    IF metadata # None /\ Truthy(metadata.display_name)
    THEN IF metadata.display_name.t = "str"
         THEN [t |-> "text", v |-> metadata.display_name.v]
         ELSE [t |-> "TypeError"]
    ELSE [t |-> "text", v |-> npub]

\* one iteration of the loop of bot.py:240 after the lookup of t.npub
\* returned, then the next lookup or the rest of the handler
after_lookup(t, reply, nextNpub) ==
    LET new  == replacement(t.npub, fetch_profile_metadata(reply))
        rest == t.left \ {t.npub}
    IN  IF new.t = "TypeError"
        THEN Finish([t EXCEPT !.lookups = Append(@, [npub |-> t.npub, new |-> new])], "raised")
        ELSE LET t1 == [t EXCEPT
                          !.modified_content = str_replace(@, NostrPrefix \o t.npub, new.v),
                          !.lookups = Append(@, [npub |-> t.npub, new |-> new]),
                          !.left = rest]
             IN  IF rest # {}
                 THEN [t1 EXCEPT !.npub = nextNpub]
                 ELSE start_post([t1 EXCEPT !.npub = << >>])

\* bot.py:229-241: the mentions of the content; the first lookup, or the
\* rest of the handler when there is no mention
start_mentions(t, firstNpub) ==
    LET npubs == extract_npub_mentions(t.event.content)
        t1    == [t EXCEPT !.modified_content = t.event.content]
    IN  IF npubs = << >>
        THEN start_post(t1)
        ELSE [t1 EXCEPT !.pc = "lookup", !.left = unique(npubs), !.npub = firstNpub]

\* the tokens the loop of bot.py:240 can take next: a set has no order
NextNpubs(tokens) == IF tokens = {} THEN {<< >>} ELSE tokens

(***************************************************************************)
(* handle_nostr_event  (bot.py:353-400)                                    *)
(***************************************************************************)

\* the invocation up to its first suspension point or its return.  The
\* exception of the log line of bot.py:382 is caught nowhere: the invocation
\* ends with it, after the marking and before any lookup.
handle_nostr_event(event, seq, processed, start, firstNpub) ==
    LET t == [IdleTask EXCEPT !.event = event, !.seq = seq]
    IN  IF already_processed(event.id, processed) THEN Finish(t, "duplicate")
        ELSE IF too_old(event, start) THEN Finish(t, "too_old")
        ELSE IF is_reply(event) THEN Finish(t, "reply")
        ELSE IF is_empty(event.content) THEN Finish(t, "empty")
        ELSE IF fromtimestamp_raises(event) THEN Finish(t, "raised")
        ELSE start_mentions(t, firstNpub)

\* the id not added before the first await of the invocation
processed_after_Late(event, processed, start) == processed

\* the event marked before its age is looked at
processed_after_MarkFirst(event, processed, start) ==
    IF already_processed(event.id, processed)
    THEN processed
    ELSE mark_processed(processed, event.id)

\* processed_events after the invocation's first part
processed_after(event, processed, start) ==
    IF already_processed(event.id, processed) \/ too_old(event, start)
    THEN processed
    ELSE mark_processed(processed, event.id)

\* a failed publish unmarking the event so that it is tried again
after_publish_Unmark(processed, event_id, success) ==
    IF success THEN processed ELSE processed \ {event_id}

\* bot.py:397-400: after post_to_bluesky returned, both branches only log
after_publish(processed, event_id, success) == processed

\* the invocation's record is stored; the counters of the send_post calls
\* follow it
Record(s, t, processed) ==
    /\ h' = [h EXCEPT ![s] = t]
    /\ processed_events' = IF t.post # NoPost
                           THEN after_publish(processed, t.event.id, t.post.ok)
                           ELSE processed
    /\ attempts' = IF t.post # NoPost
                   THEN [attempts EXCEPT ![t.event.id] = @ + 1] ELSE attempts
    /\ published' = IF t.post # NoPost /\ t.post.ok
                    THEN [published EXCEPT ![t.event.id] = @ + 1] ELSE published

(***************************************************************************)
(* Actions                                                                 *)
(***************************************************************************)

Init ==
    /\ start_time \in StartTimes
    /\ processed_events = {}
    /\ delivered = 0
    /\ h = [s \in Slots |-> IdleTask]
    /\ attempts = [i \in EventIds |-> 0]
    /\ published = [i \in EventIds |-> 0]
    /\ last_reply = NoReply
    /\ call = NoCall

\* the outcomes upload_blob can have when download_image returned the bytes
UploadOutcomes(reply) == IF download_image(reply) THEN CallOutcomes ELSE {"ok"}

\* the invocation spawned as a task in place of the await: handle returns
\* at once
handle_running_Spawn(t) == FALSE

\* NotificationHandler.handle  (bot.py:47-50) awaits handle_nostr_event and
\* does nothing else: a call of handle is running for as long as the
\* invocation it made is at one of its awaits
handle_running(t) == t.pc \in {"lookup", "download"}

\* the dispatch of the client, taken from section 5 of the specification
\* (one task consumes one event at a time from the stream, later events wait
\* their turn): handle is called for the next event only when no call of
\* handle is running.  The invocation is entered in the first slot that
\* holds none in progress.
client_dispatches(hh, s) ==
    /\ \A r \in Slots : ~handle_running(hh[r])
    /\ hh[s].pc \in {"idle", "done"}
    /\ \A r \in Slots : r < s => hh[r].pc \notin {"idle", "done"}

\* handle_nostr_event is entered in slot s with an event of evs and runs to
\* its first await or to its end.  The same event can be delivered again.
\* After an invocation that raised, the client library may go on delivering
\* or stop; stopping is a behaviour that takes no further step.
DeliverFrom(s, evs) ==
    /\ delivered < MaxDeliveries
    /\ h[s].pc \in {"idle", "done"}
    /\ \E event \in evs :
         \E firstNpub \in NextNpubs(unique(extract_npub_mentions(event.content))) :
            \E t \in {handle_nostr_event(event, delivered + 1, processed_events,
                                         start_time, firstNpub)} :
               \E sendOutcome \in SendOutcomes(t) :
                  /\ delivered' = delivered + 1
                  /\ Record(s, send_post_returns(t, sendOutcome),
                            processed_after(event, processed_events, start_time))
    /\ UNCHANGED <<start_time, last_reply, call>>

\* NotificationHandler.handle  (bot.py:47-50): the relay delivers an event
Deliver(s) ==
    /\ client_dispatches(h, s)
    /\ DeliverFrom(s, Events)

\* the await of bot.py:241 returns
LookupReturns(s) ==
    /\ h[s].pc = "lookup"
    /\ \E reply \in MetaReplies :
         \E nextNpub \in NextNpubs(h[s].left \ {h[s].npub}) :
            \E t \in {after_lookup(h[s], reply, nextNpub)} :
               \E sendOutcome \in SendOutcomes(t) :
                  Record(s, send_post_returns(t, sendOutcome), processed_events)
    /\ UNCHANGED <<start_time, delivered, last_reply, call>>

\* the await of bot.py:316 returns with a reply; observe says whether the
\* reply is kept in last_reply
Download(s, observe) ==
    /\ h[s].pc = "download"
    /\ \E reply \in HttpReplies :
         \E uploadOutcome \in UploadOutcomes(reply) :
            \E t \in {after_download(h[s], reply, uploadOutcome)} :
               \E sendOutcome \in SendOutcomes(t) :
                  /\ Record(s, send_post_returns(t, sendOutcome), processed_events)
                  /\ last_reply' = IF observe THEN reply ELSE last_reply
    /\ UNCHANGED <<start_time, delivered, call>>

DownloadReturns(s) == Download(s, FALSE)

\* the events are dispatched by the client, and the awaits return
Next ==
    \E s \in Slots :
        \/ Deliver(s)
        \/ LookupReturns(s)
        \/ DownloadReturns(s)

Spec == Init /\ [][Next]_vars

(***************************************************************************)
(* One call of post_to_bluesky  (bot.py:305-351), the HTTP replies         *)
(* observed                                                                *)
(***************************************************************************)

\* the program when the handler of a first event has reached the first
\* download of post_to_bluesky  (bot.py:316)
InitPost ==
    /\ start_time \in StartTimes
    /\ delivered = 1
    /\ \E event \in Events :
         \E t \in {handle_nostr_event(event, 1, {}, start_time, << >>)} :
            /\ t.pc = "download"
            /\ h = [s \in Slots |-> IF s = 1 THEN t ELSE IdleTask]
            /\ processed_events = processed_after(event, {}, start_time)
    /\ attempts = [i \in EventIds |-> 0]
    /\ published = [i \in EventIds |-> 0]
    /\ last_reply = NoReply
    /\ call = NoCall

\* the await of bot.py:316 returns and its reply is kept
FetchReturns(s) == Download(s, TRUE)

NextPost == \E s \in Slots : FetchReturns(s)

SpecPost == InitPost /\ [][NextPost]_vars

(***************************************************************************)
(* The text functions on their own: extract_image_urls  (bot.py:135-149)   *)
(* and remove_image_urls  (bot.py:151-167) applied to bounded inputs       *)
(***************************************************************************)

\* number of fragments a text is made of
MaxFrags == 3

\* "http://a.png/b.png", of which UrlA is a prefix
UrlAB == UrlA \o <<"/","b">> \o Png

\* "https://ex.com/a.png"
UrlEx == <<"h","t","t","p","s",":","/","/","e","x",".","c","o","m","/","a">> \o Png

\* pieces of text: a URL, a path that extends it, white space (a space, a
\* newline, a carriage return), punctuation,
\* and the two halves of a URL
Fragments ==
    { UrlA, <<"/","b">> \o Png, Sp, <<"\n">>, <<"\r">>, <<"!">>, <<"h","t">>,
      <<"t","p",":","/","/","a">> \o Png }

\* the texts made of at most n fragments
RECURSIVE FragTexts(_)
FragTexts(n) ==
    IF n = 0 THEN {<< >>}
    ELSE FragTexts(n - 1) \cup {t \o f : t \in FragTexts(n - 1), f \in Fragments}

\* the lists of at most two URLs, and the list of the URL of TextImage
UrlLists ==
    {<< >>} \cup {<<u>> : u \in {UrlA, UrlAB, UrlEx}}
            \cup {<<u, v>> : u \in {UrlA, UrlAB}, v \in {UrlA, UrlAB}}

UpperOf(c) ==
    CASE c = "j" -> "J" [] c = "p" -> "P" [] c = "e" -> "E" [] c = "g" -> "G"
      [] c = "n" -> "N" [] c = "i" -> "I" [] c = "f" -> "F" [] c = "w" -> "W"
      [] c = "b" -> "B"

\* the spellings of a lower-case word in lower and upper case letters
RECURSIVE Spellings(_)
Spellings(w) ==
    IF w = << >> THEN {<< >>}
    ELSE {<<c>> \o r : c \in {Head(w), UpperOf(Head(w))}, r \in Spellings(Tail(w))}

\* jpg, jpeg, png, gif, webp in every mix of cases
ExtSpellings == UNION {Spellings(ImageExtensions[x]) : x \in 1..5}

\* "http://a." and an extension
UrlWith(ext) == Http \o <<"a", ".">> \o ext

\* a URL alone, inside a sentence ("x <url>!"), and followed by a carriage
\* return and a word ("<url>\rx")
ExtractTexts ==
    {UrlWith(ext) : ext \in ExtSpellings} \cup
    {<<"x", " ">> \o UrlWith(ext) \o <<"!">> : ext \in ExtSpellings} \cup
    {UrlWith(ext) \o <<"\r", "x">> : ext \in ExtSpellings}

PureCalls ==
    {[fn |-> "remove_image_urls", text |-> t, urls |-> u, out |-> << >>, done |-> FALSE] :
        t \in FragTexts(MaxFrags) \cup {TextImage}, u \in UrlLists}
    \cup
    {[fn |-> "extract_image_urls", text |-> t, urls |-> << >>, out |-> << >>, done |-> FALSE] :
        t \in ExtractTexts}

\* the bot as constructed, and a call to make
InitPure ==
    /\ start_time \in StartTimes
    /\ processed_events = {}
    /\ delivered = 0
    /\ h = [s \in Slots |-> IdleTask]
    /\ attempts = [i \in EventIds |-> 0]
    /\ published = [i \in EventIds |-> 0]
    /\ last_reply = NoReply
    /\ call \in PureCalls

\* remove_image_urls(content, image_urls) returns
RemoveImageUrls ==
    /\ call.fn = "remove_image_urls"
    /\ ~call.done
    /\ call' = [call EXCEPT !.out = remove_image_urls(call.text, call.urls), !.done = TRUE]
    /\ UNCHANGED <<start_time, processed_events, delivered, h, attempts, published,
                   last_reply>>

\* extract_image_urls(content) returns
ExtractImageUrls ==
    /\ call.fn = "extract_image_urls"
    /\ ~call.done
    /\ call' = [call EXCEPT !.out = extract_image_urls(call.text), !.done = TRUE]
    /\ UNCHANGED <<start_time, processed_events, delivered, h, attempts, published,
                   last_reply>>

NextPure == RemoveImageUrls \/ ExtractImageUrls

SpecPure == InitPure /\ [][NextPure]_vars

(***************************************************************************)
(* Interleaved invocations of handle_nostr_event: an event can be          *)
(* delivered while earlier invocations are at an await                     *)
(***************************************************************************)

\* the events of interleaved runs: a mention, an image, and both
ConcEvents == {event \in Events : event.id \in {5, 8, 11}}

\* the first slot that holds no invocation in progress
free_slot(hh, s) ==
    /\ hh[s].pc \in {"idle", "done"}
    /\ \A r \in Slots : r < s => hh[r].pc \notin {"idle", "done"}

\* handle_nostr_event is entered while other invocations are suspended and
\* runs to its first await or to its end  (bot.py:353-387)
Enter(s) ==
    /\ free_slot(h, s)
    /\ DeliverFrom(s, ConcEvents)

NextConc ==
    \E s \in Slots :
        \/ Enter(s)
        \/ LookupReturns(s)
        \/ DownloadReturns(s)

SpecConc == Init /\ [][NextConc]_vars

(***************************************************************************)
(* Properties                                                              *)
(***************************************************************************)

\* the invocations that exist
Started == {s \in Slots : h[s].pc # "idle"}

\* a new top-level post with content: at or after the cutoff, no reply
\* marker, content not blank
Eligible(event) ==
    /\ ~ts_less(event.created_at, start_time)
    /\ Len(event.event_ids) = 0
    /\ \E k \in 1..Len(event.content) : event.content[k] \notin WhiteSpace

\* a step that delivers an event whose id is already in processed_events
Redelivery(s) ==
    /\ delivered' = delivered + 1
    /\ h'[s].seq = delivered'
    /\ h'[s].event.id \in processed_events

\* C1: at most one send_post call is ever made for an event id, and a
\* delivery of an id that is already in processed_events returns without one
C1_AtMostOnePublishAttempt ==
    /\ [](\A i \in EventIds : attempts[i] <= 1)
    /\ [][\A s \in Slots : Redelivery(s) =>
            /\ h'[s].pc = "done"
            /\ h'[s].post = NoPost
            /\ attempts' = attempts]_vars

\* an event that was published is delivered again and skipped
C1_Witness ==
    \E s \in Started :
        /\ h[s].result = "duplicate"
        /\ h[s].seq = 2
        /\ attempts[h[s].event.id] = 1

\* C2 as stated: every eligible post that was handled has exactly one
\* successful publish
C2_ExactlyOncePublished ==
    \A s \in Started :
        (h[s].pc = "done" /\ Eligible(h[s].event)) => published[h[s].event.id] = 1

\* C2 amended: an eligible post is republished at most once.  At most one
\* publish attempt is made for it; it has one successful publish exactly when
\* that attempt was made and send_post returned, and none when send_post
\* raised or when the handler raised before the attempt (the log line of
\* bot.py:382 on a time after the year 9999, or mention resolution).
C2_PublishedAtMostOnce ==
    /\ \A i \in EventIds : published[i] <= attempts[i] /\ attempts[i] <= 1
    /\ \A s \in Started :
        (h[s].pc = "done" /\ Eligible(h[s].event) /\ h[s].result # "duplicate") =>
            /\ published[h[s].event.id] = (IF h[s].post # NoPost /\ h[s].post.ok THEN 1 ELSE 0)
            /\ attempts[h[s].event.id] = (IF h[s].result = "raised" THEN 0 ELSE 1)
            /\ (h[s].post = NoPost) <=> (h[s].result = "raised")

\* an eligible post whose publish succeeded is delivered a second time
C2_Witness ==
    \E s \in Started :
        /\ h[s].result = "duplicate"
        /\ Eligible(h[s].event)
        /\ published[h[s].event.id] = 1

\* C3: no send_post call for an event created strictly before the cutoff,
\* whatever its content and however often it is delivered; an event created
\* exactly at the cutoff passes the age gate and is marked
C3_CutoffGate ==
    /\ \A e \in Events : ts_less(e.created_at, start_time) => attempts[e.id] = 0
    /\ \A s \in Started :
        /\ ts_less(h[s].event.created_at, start_time) =>
              (h[s].pc = "done" /\ h[s].post = NoPost /\ h[s].fetched = << >>)
        /\ h[s].event.created_at = start_time =>
              (h[s].result # "too_old" /\ h[s].event.id \in processed_events)

\* an event older than the cutoff, with an image URL in its content, has
\* been delivered for the second time
C3_Witness ==
    \E s \in Started :
        /\ ts_less(h[s].event.created_at, start_time)
        /\ h[s].seq = 2
        /\ extract_image_urls(h[s].event.content) # << >>
        /\ h[s].event.id \notin processed_events

\* C4: no send_post call for an event with a reply marker; when it passed
\* the duplicate and age gates its id is marked, and a later delivery of the
\* id returns as a duplicate
C4_ReplyGate ==
    /\ [](\A e \in Events : Len(e.event_ids) > 0 => attempts[e.id] = 0)
    /\ [](\A s \in Started :
            (Len(h[s].event.event_ids) > 0 /\ ~ts_less(h[s].event.created_at, start_time)) =>
                /\ h[s].pc = "done"
                /\ h[s].post = NoPost
                /\ h[s].event.id \in processed_events)
    /\ [][\A s \in Slots :
            (Redelivery(s) /\ Len(h'[s].event.event_ids) > 0) =>
                h'[s].result = "duplicate"]_vars

\* a reply created after the cutoff is delivered twice
C4_Witness ==
    \E s \in Started :
        /\ Len(h[s].event.event_ids) > 0
        /\ ~ts_less(h[s].event.created_at, start_time)
        /\ h[s].result = "duplicate"

\* C5: after a failed send_post the event id stays in processed_events and
\* no second send_post call is made for it
C5_FailedPublishIsFinal ==
    /\ \A i \in EventIds :
          attempts[i] > published[i] => (i \in processed_events /\ attempts[i] = 1)
    /\ \A s \in Started :
          h[s].result = "failed" =>
              /\ h[s].event.id \in processed_events
              /\ attempts[h[s].event.id] = 1
              /\ published[h[s].event.id] = 0

\* an event whose publish failed is delivered again and skipped
C5_Witness ==
    \E s \in Started :
        /\ h[s].result = "duplicate"
        /\ attempts[h[s].event.id] = 1
        /\ published[h[s].event.id] = 0

\* C6: the URLs fetched are the first 4 extracted URLs, in their order, and
\* no other; at most 4 images are attached, in the order of their URLs
C6_AttachmentCap ==
    \A s \in Started :
        /\ Len(h[s].fetched) <= 4
        /\ Len(h[s].fetched) <= Len(h[s].image_urls)
        /\ \A k \in 1..Len(h[s].fetched) : h[s].fetched[k] = h[s].image_urls[k]
        /\ h[s].post # NoPost =>
              /\ Len(h[s].image_urls) >= 4 => Len(h[s].fetched) = 4
              /\ Len(h[s].image_urls) < 4 => Len(h[s].fetched) = Len(h[s].image_urls)
              /\ h[s].post.images = h[s].images
        /\ Len(h[s].images) <= 4
        /\ Len(h[s].successfully_processed_urls) = Len(h[s].images)
        /\ \A j \in 1..Len(h[s].images) :
              /\ h[s].images[j] \in 1..Len(h[s].fetched)
              /\ h[s].successfully_processed_urls[j] = h[s].image_urls[h[s].images[j]]
              /\ j > 1 => h[s].images[j - 1] < h[s].images[j]

\* six URLs extracted, four fetched, one of the four dropped, post sent
C6_Witness ==
    \E s \in Started :
        /\ Len(h[s].image_urls) = 6
        /\ Len(h[s].fetched) = 4
        /\ Len(h[s].images) = 3
        /\ h[s].post # NoPost

\* the positions of the candidates that are not attached
NotAttached(t) ==
    {k \in 1..Len(t.image_urls) : \A j \in 1..Len(t.images) : t.images[j] # k}

\* C7: every extracted URL that was not attached (it failed at some stage,
\* or lies beyond the cap) is still in the published text, as many times as
\* it was extracted without being attached
C7_UnattachedUrlsKept ==
    \A s \in Started :
        h[s].post # NoPost =>
            \A k \in NotAttached(h[s]) :
                Occurrences(h[s].post.text, h[s].image_urls[k])
                    >= Cardinality({j \in NotAttached(h[s]) :
                                        h[s].image_urls[j] = h[s].image_urls[k]})

\* the invocation passed the duplicate, age, reply and empty gates
PassedGates(t) == t.result \notin {"duplicate", "too_old", "reply", "empty"}

\* C8: an event that passed the four gates goes through all its candidates
\* and makes exactly one send_post call, whatever candidates fail; the
\* attached images are among the uploaded ones, and those among the fetched
C8_CandidateFailureNeverAborts ==
    \A s \in Started :
        (h[s].pc = "done" /\ PassedGates(h[s])) =>
            /\ h[s].post # NoPost
            /\ attempts[h[s].event.id] = 1
            /\ Len(h[s].fetched) = Len(candidates(h[s].image_urls))
            /\ \A j \in 1..Len(h[s].images) :
                  \E u \in 1..Len(h[s].uploaded) : h[s].uploaded[u] = h[s].images[j]
            /\ \A u \in 1..Len(h[s].uploaded) : h[s].uploaded[u] \in 1..Len(h[s].fetched)

\* the text holds 'nostr:' followed by 'npub1' and a bech32 character
HasRawMention(text) ==
    \E i \in 1..Len(text) :
        /\ StartsWith(text, i, <<"n","o","s","t","r",":","n","p","u","b","1">>)
        /\ i + 11 <= Len(text)
        /\ text[i + 11] \in Bech32Chars

\* C9: the text passed to send_post never holds a raw scheme-prefixed
\* mention token
C9_NoRawMentionPublished ==
    \A s \in Started : h[s].post # NoPost => ~HasRawMention(h[s].post.text)

\* the replacements of the lookups applied to a text, one token after the
\* other, in the order of the sequence
RECURSIVE apply_lookups(_, _, _)
apply_lookups(text, lookups, k) ==
    IF k > Len(lookups) THEN text
    ELSE apply_lookups(str_replace(text, NostrPrefix \o lookups[k].npub, lookups[k].new.v),
                       lookups, k + 1)

Orders(n) == {p \in [1..n -> 1..n] : \A a, b \in 1..n : p[a] = p[b] => a = b}

\* the text in which every mention the pattern finds is replaced by what its
\* token resolved to
RECURSIVE resolve_matches(_, _, _)
resolve_matches(s, i, lookups) ==
    IF i > Len(s) THEN << >>
    ELSE IF /\ StartsWith(s, i, NostrPrefix \o Npub1)
            /\ i + 11 <= Len(s)
            /\ s[i + 11] \in Bech32Chars
         THEN LET e   == RunEnd(s, i + 11, Bech32Chars)
                  tok == SubSeq(s, i + 6, e)
                  r   == CHOOSE k \in 1..Len(lookups) : lookups[k].npub = tok
              IN  lookups[r].new.v \o resolve_matches(s, e + 1, lookups)
         ELSE <<s[i]>> \o resolve_matches(s, i + 1, lookups)

\* replace_npub_mentions returned for the invocation, after at least one lookup
Resolved(t) == t.lookups # << >> /\ t.left = {} /\ t.result # "raised"

\* C10: every mention of the text is replaced by the display name of its
\* token, or by the bare token when the lookup failed, and the result does
\* not depend on the order in which the unique tokens are processed
C10_MentionsReplaced ==
    \A s \in Started :
        Resolved(h[s]) =>
            /\ h[s].modified_content = resolve_matches(h[s].event.content, 1, h[s].lookups)
            /\ \A p \in Orders(Len(h[s].lookups)) :
                  apply_lookups(h[s].event.content,
                                [k \in 1..Len(h[s].lookups) |-> h[s].lookups[p[k]]], 1)
                      = h[s].modified_content

\* the tokens looked up so far by an invocation, in the order of the lookups
issued(t) == [k \in 1..Len(t.lookups) |-> t.lookups[k].npub]

\* C11: once mention resolution is over for an event that passed the gates,
\* one lookup was made for each distinct mention token of its content and
\* none was made twice; every invocation starts without any lookup result,
\* so a token is looked up again in each event that mentions it
C11_OneLookupPerToken ==
    \A s \in Started :
        (PassedGates(h[s]) /\ h[s].pc # "lookup") =>
            LET tokens == unique(extract_npub_mentions(h[s].event.content))
                done   == issued(h[s])
            IN  /\ \A a, b \in 1..Len(done) : done[a] = done[b] => a = b
                /\ unique(done) = tokens

ImagePrefix == <<"i","m","a","g","e","/">>

\* the candidate the last reply was for: the loop has moved on to the next
\* one unless it was the last
answered(t) == IF t.pc = "done" THEN t.idx ELSE t.idx - 1

\* C12: a reply whose content type does not start with image/ is rejected
\* whatever its size, and so is an image reply of more than 10 MiB: the
\* candidate is not uploaded and is not in the post; a decodable image of
\* exactly 10 MiB is passed on to the upload
C12_DownloadGates ==
    \A s \in Started :
        (last_reply # NoReply /\ last_reply.kind = "response") =>
            LET k        == answered(h[s])
                image    == StartsWith(last_reply.content_type, 1, ImagePrefix)
                limit    == 10 * 1024 * 1024
                rejected == /\ k \notin unique(h[s].uploaded)
                            /\ k \notin unique(h[s].images)
                            /\ h[s].post # NoPost => k \notin unique(h[s].post.images)
            IN  /\ ~image => rejected
                /\ (image /\ last_reply.size > limit) => rejected
                /\ (last_reply.status # 200) => rejected
                /\ (image /\ last_reply.status = 200 /\ ~last_reply.decodable) => rejected
                /\ (image /\ last_reply.status = 200 /\ last_reply.size = limit
                          /\ last_reply.decodable) => k \in unique(h[s].uploaded)

\* a post was sent with an image, after the last candidate was answered with
\* an image of one byte more than 10 MiB
C12_Witness ==
    \E s \in Started :
        /\ h[s].pc = "done"
        /\ h[s].post # NoPost
        /\ h[s].post.images # << >>
        /\ last_reply # NoReply
        /\ last_reply.kind = "response"
        /\ StartsWith(last_reply.content_type, 1, ImagePrefix)
        /\ last_reply.size = 10 * 1024 * 1024 + 1
        /\ h[s].idx \notin unique(h[s].post.images)

\* C13: a post without image, whether no URL was extracted or every
\* candidate failed, carries the content after mention resolution unchanged
\* (no URL removed, no whitespace touched) and has no embed
C13_TextOnlyKeepsText ==
    \A s \in Started :
        (h[s].post # NoPost /\ h[s].post.images = << >>) =>
            /\ h[s].post.text = apply_lookups(h[s].event.content, h[s].lookups, 1)
            /\ h[s].post.text = h[s].modified_content
            /\ ~h[s].post.embed

\* every candidate of a content with a run of two spaces failed, and the
\* post went out with the URLs and the two spaces in it
C13_Witness ==
    \E s \in Started :
        /\ h[s].post # NoPost
        /\ h[s].post.images = << >>
        /\ Len(h[s].fetched) = 2
        /\ \A k \in 1..Len(h[s].image_urls) :
              Occurrences(h[s].post.text, h[s].image_urls[k]) > 0
        /\ \E i \in 1..(Len(h[s].post.text) - 1) :
              h[s].post.text[i] = " " /\ h[s].post.text[i + 1] = " "

\* the list urls in the order p
permuted(urls, p) == [k \in 1..Len(urls) |-> urls[p[k]]]

\* C14: remove_image_urls gives the same text for every order of the URL
\* list, also when one URL of the list is a prefix of another
C14_RemovalOrderIndependent ==
    (call.fn = "remove_image_urls" /\ call.done) =>
        \A p \in Orders(Len(call.urls)) :
            remove_image_urls(call.text, permuted(call.urls, p)) = call.out

\* "look at"
TextLookAt == <<"l","o","o","k"," ","a","t">>

\* a text without run of two spaces, without run of three newlines and
\* without white space at either end
Tidy(s) ==
    /\ \A i \in 1..(Len(s) - 1) : ~(s[i] = " " /\ s[i + 1] = " ")
    /\ \A i \in 1..(Len(s) - 2) : ~(s[i] = "\n" /\ s[i + 1] = "\n" /\ s[i + 2] = "\n")
    /\ s # << >> => (s[1] \notin WhiteSpace /\ s[Len(s)] \notin WhiteSpace)

\* C15: the text remove_image_urls returns contains none of the URLs of the
\* list, no run of two spaces, no run of three newlines and no white space
\* at either end; 'look at https://ex.com/a.png!' gives 'look at'
C15_RemovalResult ==
    (call.fn = "remove_image_urls" /\ call.done) =>
        /\ \A k \in 1..Len(call.urls) : Occurrences(call.out, call.urls[k]) = 0
        /\ Tidy(call.out)
        /\ (call.text = TextImage /\ call.urls = <<UrlEx>>) => call.out = TextLookAt

\* C16: an image URL is extracted whatever the case of the letters of its
\* extension, mixed case included, alone, inside a sentence or before a
\* carriage return
C16_ExtensionAnyCase ==
    (call.fn = "extract_image_urls" /\ call.done) =>
        \A ext \in ExtSpellings :
            call.text \in {UrlWith(ext), <<"x", " ">> \o UrlWith(ext) \o <<"!">>,
                           UrlWith(ext) \o <<"\r", "x">>} =>
                call.out = <<UrlWith(ext)>>

\* an invocation of the handler is between two of its awaits
InProgress(t) == t.pc \in {"lookup", "download"}

\* C17: with the client dispatching one call of handle at a time, events are
\* handled one at a time in the order of their delivery: handle does not
\* return while its invocation is at an await, so an event is delivered only
\* when no invocation is in progress, at most one invocation is in progress,
\* and a send_post call is always for the event delivered last: the publish
\* attempts follow the order of delivery
C17_OneAtATimeInOrder ==
    [][/\ Cardinality({s \in Slots : InProgress(h'[s])}) <= 1
       /\ (delivered' # delivered) => \A s \in Slots : ~InProgress(h[s])
       /\ \A s \in Slots :
            (h'[s] # h[s] /\ h'[s].post # NoPost) => h'[s].seq = delivered']_vars

\* the second event delivered was published after the first had been
C17_Witness ==
    \E s \in Started :
        /\ h[s].seq = 2
        /\ h[s].post # NoPost
        /\ \E i \in EventIds : i # h[s].event.id /\ attempts[i] = 1

\* C18: processed_events holds no id of an event created before the cutoff;
\* it only grows, the skip of an event that is too old leaves it as it was,
\* and the cutoff never changes
C18_ProcessedSetDiscipline ==
    /\ [](\A event \in Events :
            event.id \in processed_events => ~ts_less(event.created_at, start_time))
    /\ [][/\ processed_events \subseteq processed_events'
          /\ start_time' = start_time
          /\ \A s \in Slots :
               (delivered' # delivered /\ h'[s].seq = delivered'
                    /\ ts_less(h'[s].event.created_at, start_time)) =>
                  processed_events' = processed_events]_vars

\* an event created before the cutoff is delivered after another event was
\* marked, and is not in processed_events
C18_Witness ==
    \E s \in Started :
        /\ h[s].seq = 2
        /\ ts_less(h[s].event.created_at, start_time)
        /\ h[s].pc = "done"
        /\ processed_events # {}
        /\ h[s].event.id \notin processed_events

\* the invocation returned without a lookup, a fetch, an upload or a post
Untouched(t) ==
    /\ t.pc = "done"
    /\ t.lookups = << >>
    /\ t.fetched = << >>
    /\ t.uploaded = << >>
    /\ t.images = << >>
    /\ t.post = NoPost

Blank(content) == \A k \in 1..Len(content) : content[k] \in WhiteSpace

\* stopped by the age gate, the reply gate or the empty-content gate
Gated(event) ==
    \/ ts_less(event.created_at, start_time)
    \/ Len(event.event_ids) > 0
    \/ Blank(event.content)

\* C19: an event stopped by a gate (duplicate, too old, reply, empty content)
\* gets no mention lookup, no image fetch, no upload and no send_post call;
\* an event with empty content that passed the first two gates is marked
C19_GatesShortCircuit ==
    /\ [](\A s \in Started : Gated(h[s].event) => Untouched(h[s]))
    /\ [](\A event \in Events : Gated(event) => attempts[event.id] = 0)
    /\ [](\A s \in Started :
            (Blank(h[s].event.content) /\ ~ts_less(h[s].event.created_at, start_time)) =>
                h[s].event.id \in processed_events)
    /\ [][\A s \in Slots :
            Redelivery(s) => (Untouched(h'[s]) /\ attempts' = attempts)]_vars

\* an event with blank content, created at the cutoff and without reply
\* marker, was delivered first and is marked
C19_Witness ==
    \E s \in Started :
        /\ h[s].seq = 1
        /\ Blank(h[s].event.content)
        /\ ~ts_less(h[s].event.created_at, start_time)
        /\ Len(h[s].event.event_ids) = 0
        /\ Untouched(h[s])
        /\ h[s].event.id \in processed_events

\* the invocation went on after the add of bot.py:366
PastMarking(t) == t.pc # "idle" /\ t.result \notin {"duplicate", "too_old"}

\* C20: the duplicate check and the marking are one step.  With invocations
\* interleaved at their awaits, an invocation that goes past the marking
\* finds its id unmarked and leaves it marked in the same step, a delivery
\* of a marked id returns as a duplicate, at most one invocation per id is
\* past the marking, and at most one send_post call is made per id
C20_AtomicCheckAndSet ==
    /\ [](\A i \in EventIds : attempts[i] <= 1)
    /\ [](\A s, r \in Slots :
            (s # r /\ PastMarking(h[s]) /\ PastMarking(h[r])) =>
                h[s].event.id # h[r].event.id)
    /\ [][\A s \in Slots :
            (delivered' # delivered /\ h'[s].seq = delivered') =>
                /\ PastMarking(h'[s]) =>
                      /\ h'[s].event.id \notin processed_events
                      /\ h'[s].event.id \in processed_events'
                /\ h'[s].event.id \in processed_events =>
                      (h'[s].result = "duplicate" /\ Untouched(h'[s]))]_vars

\* an event is delivered again while its first invocation is at an await,
\* and the second invocation returned as a duplicate
C20_Witness ==
    \E s, r \in Started :
        /\ s # r
        /\ h[s].event.id = h[r].event.id
        /\ InProgress(h[s])
        /\ h[r].result = "duplicate"
        /\ h[r].seq > h[s].seq

====
